---- MODULE Spec2Model ----
(***************************************************************************)
(* Model of the modal editing engine of Redit (src/src/main.rs): the       *)
(* Editor state, the three event translators and the match over Action in  *)
(* the control loop of main.  A String is a sequence of characters, each   *)
(* with its UTF-8 width; String::len, String::insert and String::remove    *)
(* work on byte indices as in Rust, and the cursor column is the usize the *)
(* code keeps.  A Rust panic (unimplemented!, an index out of range, a     *)
(* byte index inside a character) ends the process: panic names its kind,  *)
(* with the state as it was at the panicking call.  key is the last event  *)
(* the loop has read.                                                      *)
(***************************************************************************)
EXTENDS Integers, Sequences, FiniteSets, TLC

\* ---------------------------------------------------------------- bounds
MaxLines == 3        \* lines in the buffer
MaxBytes == 2        \* bytes of text held in lines, command and shortcut_buffer
                     \* together, and the cursor column

\* ------------------------------------------------------------ characters
\* A character of two UTF-8 bytes (e-acute); every other character used is ASCII.
WideChar == "U+00E9"
\* Characters typed while in Insert mode.
InsertChars == {"q", WideChar}
\* Characters typed while in Command mode.
CommandChars == {"q", "z"}
\* Characters typed in Visual mode that no earlier arm of
\* handle_visual_mode_event matches.
ShortcutChars == {"g", "d", "G"}
\* Characters bound to an action of their own in Visual mode.
BoundChars == {"i", "a", "o", ":", "h", "l", "j", "k", "x"}
Chars == BoundChars \cup ShortcutChars \cup InsertChars \cup CommandChars
\* Tab stands for every KeyCode without an arm, Resize for every non-key Event.
Events == {"Esc", "Enter", "Backspace", "Tab", "Resize"} \cup Chars

\* char::len_utf8
Utf8Len(c) == IF c = WideChar THEN 2 ELSE 1

VARIABLES mode, x, y, lines, command, shortcut_buffer, quit, panic, key
vars == <<mode, x, y, lines, command, shortcut_buffer, quit, panic, key>>

\* ------------------------------------------------------- String and Vec
RECURSIVE StrLen(_)
\* String::len: the length in bytes.
StrLen(s) == IF s = <<>> THEN 0 ELSE Utf8Len(Head(s)) + StrLen(Tail(s))

\* The byte offset at which the character of index i (1-based) starts.
ByteOffset(s, i) == StrLen(SubSeq(s, 1, i - 1))

\* str::is_char_boundary
IsCharBoundary(s, idx) == \E i \in 1..(Len(s) + 1) : ByteOffset(s, i) = idx

\* The index (1-based) of the character starting at byte idx.
CharAt(s, idx) == CHOOSE i \in 1..(Len(s) + 1) : ByteOffset(s, i) = idx

\* String::insert panics unless idx <= len and idx is a char boundary.
StrInsertPanic(s, idx) ==
    IF idx > StrLen(s) THEN "index"
    ELSE IF ~IsCharBoundary(s, idx) THEN "char_boundary"
    ELSE "none"
StrInsert(s, idx, c) ==
    SubSeq(s, 1, CharAt(s, idx) - 1) \o <<c>> \o SubSeq(s, CharAt(s, idx), Len(s))

\* String::remove panics unless idx < len and idx is a char boundary.
StrRemovePanic(s, idx) ==
    IF idx >= StrLen(s) THEN "index"
    ELSE IF ~IsCharBoundary(s, idx) THEN "char_boundary"
    ELSE "none"
StrRemove(s, idx) ==
    SubSeq(s, 1, CharAt(s, idx) - 1) \o SubSeq(s, CharAt(s, idx) + 1, Len(s))

\* Vec::remove(i) with a 0-based index; panics unless i < len.
VecRemove(v, i) == SubSeq(v, 1, i) \o SubSeq(v, i + 2, Len(v))
\* Vec::insert(i, e) with a 0-based index; panics unless i <= len.
VecInsert(v, i, e) == SubSeq(v, 1, i) \o <<e>> \o SubSeq(v, i + 1, Len(v))
\* Vec::get(i) is Some.
HasLine(i) == i < Len(lines)
\* The line at 0-based row i.
Line(i) == lines[i + 1]

Min(a, b) == IF a < b THEN a ELSE b
\* usize::saturating_sub(1)
SatDec(n) == IF n = 0 THEN 0 ELSE n - 1

\* Bytes of text in the whole buffer.
RECURSIVE TotalBytes(_)
TotalBytes(v) == IF v = <<>> THEN 0 ELSE StrLen(Head(v)) + TotalBytes(Tail(v))

\* ---------------------------------------------------------- translators
handle_insert_mode_event(e) ==
    CASE e = "Esc" -> [type |-> "EnterVisualMode"]
      [] e = "Enter" -> [type |-> "NewLine"]
      [] e = "Backspace" -> [type |-> "BackspaceInInsertMode"]
      [] e \in Chars -> [type |-> "EnterChar", c |-> e]
      [] OTHER -> [type |-> "Unknown"]

handle_visual_mode_event(e) ==
    CASE e = "Esc" -> [type |-> "ClearShortuctBuffer"]
      [] e = "i" -> [type |-> "EnterInsertMode"]
      [] e = "a" -> [type |-> "EnterInsertModeNext"]
      [] e = "o" -> [type |-> "EnterInsertModeInNewLine"]
      [] e = ":" -> [type |-> "EnterCommandMode"]
      [] e = "h" -> [type |-> "MoveCursorLeft"]
      [] e = "l" -> [type |-> "MoveCursorRight"]
      [] e = "j" -> [type |-> "MoveCursorDown"]
      [] e = "k" -> [type |-> "MoveCursorUp"]
      [] e = "x" -> [type |-> "RemoveCursorChar"]
      [] e \in Chars \ BoundChars -> [type |-> "AppendShortcutChar", c |-> e]
      [] OTHER -> [type |-> "Unknown"]

\* handle_command_mode_event with an arm for Backspace that cancels the command.
handle_command_mode_event_backspace(e) ==
    CASE e = "Esc" -> [type |-> "EnterVisualMode"]
      [] e = "Backspace" -> [type |-> "EnterVisualMode"]
      [] e = "Enter" -> [type |-> "ExecuteCommand"]
      [] e \in Chars -> [type |-> "EnterCommandChar", c |-> e]
      [] OTHER -> [type |-> "Unknown"]

handle_command_mode_event(e) ==
    CASE e = "Esc" -> [type |-> "EnterVisualMode"]
      [] e = "Enter" -> [type |-> "ExecuteCommand"]
      [] e \in Chars -> [type |-> "EnterCommandChar", c |-> e]
      [] OTHER -> [type |-> "Unknown"]

\* The action the control loop computes for event e in the current mode.
Translate(e) ==
    CASE mode = "Insert" -> handle_insert_mode_event(e)
      [] mode = "Visual" -> handle_visual_mode_event(e)
      [] mode = "Command" -> handle_command_mode_event(e)

\* The characters the model types in the current mode.
Typed(e) ==
    e \in Chars =>
        CASE mode = "Insert" -> e \in InsertChars
          [] mode = "Visual" -> e \in BoundChars \cup ShortcutChars
          [] mode = "Command" -> e \in CommandChars

\* A loop that goes on reading events after quit is set.
ReadsAfterQuit(e, t) ==
    /\ panic = "none"
    /\ Typed(e)
    /\ Translate(e).type = t
    /\ key' = e

\* The loop reads event e and its translation is an action of type t.
Reads(e, t) ==
    /\ ~quit
    /\ panic = "none"
    /\ Typed(e)
    /\ Translate(e).type = t
    /\ key' = e

\* ------------------------------------------------------------------ Init
Init ==
    /\ mode = "Visual"
    /\ x = 0
    /\ y = 0
    /\ lines = << <<>> >>
    /\ command = <<>>
    /\ shortcut_buffer = <<>>
    /\ quit = FALSE
    /\ panic = "none"
    /\ key = "none"

\* -------------------------------------------------------------- Cursor
move_left(cx) == SatDec(cx)
move_right(cx, boundary) == Min(boundary, cx + 1)
move_down(cy, boundary) == Min(boundary, cy + 1)
move_up(cy) == SatDec(cy)
\* move_cursor_to_begin resetting the column only.
move_cursor_to_begin_column == [x |-> 0, y |-> y]
\* Cursor::move_cursor_to_begin: the position after it.
move_cursor_to_begin == [x |-> 0, y |-> 0]

\* execute_command matching every command text that starts with "q".
execute_command_prefix == IF command # <<>> /\ Head(command) = "q" THEN TRUE ELSE quit

\* Editor::execute_command: the value of quit after it.
execute_command == IF command = <<"q">> THEN TRUE ELSE quit

\* ------------------------------------------------- the match over Action
\* Every arm below leaves unchanged what it does not name.
Panic(kind) == panic' = kind
\* The state after the step is within the bounds of the model.
Bounded ==
    /\ Len(lines') <= MaxLines
    /\ TotalBytes(lines') + StrLen(command') + StrLen(shortcut_buffer') <= MaxBytes
    /\ x' <= MaxBytes
    /\ y' <= MaxLines
NoPanic == panic' = "none"

EnterInsertMode ==
    /\ \E e \in Events : Reads(e, "EnterInsertMode")
    /\ mode' = "Insert"
    /\ NoPanic
    /\ UNCHANGED <<x, y, lines, command, shortcut_buffer, quit>>

\* move_right(usize::MAX) and move_down(usize::MAX): the boundary is never the
\* smaller of the two, so the arms below pass the coordinate's successor as
\* the boundary.
EnterInsertModeNext ==
    /\ \E e \in Events : Reads(e, "EnterInsertModeNext")
    /\ mode' = "Insert"
    /\ x' = move_right(x, x + 1)
    /\ NoPanic
    /\ UNCHANGED <<y, lines, command, shortcut_buffer, quit>>
    /\ Bounded

\* Vec::insert(c_row + 1, ..) panics when c_row + 1 > len.
EnterInsertModeInNewLine ==
    /\ \E e \in Events : Reads(e, "EnterInsertModeInNewLine")
    /\ IF y = Len(lines) - 1
         THEN /\ lines' = Append(lines, <<>>)
              /\ mode' = "Insert"
              /\ y' = move_down(y, y + 1)
              /\ NoPanic
         ELSE IF y + 1 <= Len(lines)
                THEN /\ lines' = VecInsert(lines, y + 1, <<>>)
                     /\ mode' = "Insert"
                     /\ y' = move_down(y, y + 1)
                     /\ NoPanic
                ELSE /\ Panic("index")
                     /\ UNCHANGED <<lines, mode, y>>
    /\ UNCHANGED <<x, command, shortcut_buffer, quit>>
    /\ Bounded

\* The EnterVisualMode arm leaving the command text as it is.
CancelKeepsCommand == command

\* The command text after the EnterVisualMode arm: cleared when the mode was
\* Command.
CancelClearsCommand == IF mode = "Command" THEN <<>> ELSE command

EnterVisualMode ==
    /\ \E e \in Events : Reads(e, "EnterVisualMode")
    /\ command' = CancelClearsCommand
    /\ x' = IF mode = "Insert" /\ HasLine(y) /\ StrLen(Line(y)) = x
              THEN move_left(x)
              ELSE x
    /\ mode' = "Visual"
    /\ NoPanic
    /\ UNCHANGED <<y, lines, shortcut_buffer, quit>>

EnterCommandMode ==
    /\ \E e \in Events : Reads(e, "EnterCommandMode")
    /\ mode' = "Command"
    /\ NoPanic
    /\ UNCHANGED <<x, y, lines, command, shortcut_buffer, quit>>

MoveCursorLeft ==
    /\ \E e \in Events : Reads(e, "MoveCursorLeft")
    /\ x' = move_left(x)
    /\ NoPanic
    /\ UNCHANGED <<mode, y, lines, command, shortcut_buffer, quit>>

MoveCursorRight ==
    /\ \E e \in Events : Reads(e, "MoveCursorRight")
    /\ x' = IF HasLine(y)
              THEN IF StrLen(Line(y)) = 0
                     THEN move_right(x, 0)
                     ELSE move_right(x, StrLen(Line(y)) - 1)
              ELSE x
    /\ NoPanic
    /\ UNCHANGED <<mode, y, lines, command, shortcut_buffer, quit>>

\* rows - 1 is computed on a usize: with no line it would underflow.
MoveCursorDown ==
    /\ \E e \in Events : Reads(e, "MoveCursorDown")
    /\ IF Len(lines) = 0
         THEN Panic("overflow") /\ y' = y
         ELSE /\ y' = move_down(IF Len(lines) = 1 THEN move_down(y, 0) ELSE y,
                                Len(lines) - 1)
              /\ NoPanic
    /\ UNCHANGED <<mode, x, lines, command, shortcut_buffer, quit>>

MoveCursorUp ==
    /\ \E e \in Events : Reads(e, "MoveCursorUp")
    /\ y' = move_up(y)
    /\ NoPanic
    /\ UNCHANGED <<mode, x, lines, command, shortcut_buffer, quit>>

EnterCommandChar ==
    /\ \E e \in Events :
          /\ Reads(e, "EnterCommandChar")
          /\ command' = Append(command, Translate(e).c)
    /\ NoPanic
    /\ UNCHANGED <<mode, x, y, lines, shortcut_buffer, quit>>
    /\ Bounded

ExecuteCommand ==
    /\ \E e \in Events : Reads(e, "ExecuteCommand")
    /\ quit' = execute_command
    /\ NoPanic
    /\ UNCHANGED <<mode, x, y, lines, command, shortcut_buffer>>

\* Whether EnterChar(c) panics on the line, and the line after it.
EnterCharPanic(line, c) ==
    IF line = <<>> \/ x > StrLen(line) THEN "none" ELSE StrInsertPanic(line, x)
EnterCharLine(line, c) ==
    IF line = <<>> \/ x > StrLen(line) THEN Append(line, c) ELSE StrInsert(line, x, c)

EnterChar ==
    /\ \E e \in Events :
          /\ Reads(e, "EnterChar")
          /\ IF HasLine(y)
               THEN IF EnterCharPanic(Line(y), Translate(e).c) = "none"
                      THEN /\ lines' = [lines EXCEPT ![y + 1] =
                                           EnterCharLine(@, Translate(e).c)]
                           /\ x' = move_right(x, x + 1)
                           /\ NoPanic
                      ELSE /\ Panic(EnterCharPanic(Line(y), Translate(e).c))
                           /\ UNCHANGED <<lines, x>>
               ELSE NoPanic /\ UNCHANGED <<lines, x>>
    /\ UNCHANGED <<mode, y, command, shortcut_buffer, quit>>
    /\ Bounded

\* lines.push(String::new()); move_down(usize::MAX)
NewLine ==
    /\ \E e \in Events : Reads(e, "NewLine")
    /\ lines' = Append(lines, <<>>)
    /\ y' = move_down(y, y + 1)
    /\ NoPanic
    /\ UNCHANGED <<mode, x, command, shortcut_buffer, quit>>
    /\ Bounded

\* The "dd" arm removing the line whenever there is one.
DdRemovesAny == Len(lines) > 0

\* The "dd" arm removes the line only while another one remains.
DdRemoves == Len(lines) > 1

AppendShortcutChar ==
    /\ \E e \in Events :
          /\ Reads(e, "AppendShortcutChar")
          /\ LET buf == Append(shortcut_buffer, Translate(e).c) IN
             CASE buf = <<"g", "g">> ->
                    /\ x' = move_cursor_to_begin.x
                    /\ y' = move_cursor_to_begin.y
                    /\ shortcut_buffer' = <<>>
                    /\ NoPanic
                    /\ UNCHANGED lines
               [] buf = <<"G">> ->
                    \* Cursor::move_cursor_to_end is unimplemented!()
                    /\ shortcut_buffer' = buf
                    /\ Panic("unimplemented")
                    /\ UNCHANGED <<x, y, lines>>
               [] buf = <<"d", "d">> ->
                    IF DdRemoves
                      THEN IF y < Len(lines)
                             THEN /\ lines' = VecRemove(lines, y)
                                  /\ shortcut_buffer' = <<>>
                                  /\ NoPanic
                                  /\ UNCHANGED <<x, y>>
                             ELSE /\ shortcut_buffer' = buf
                                  /\ Panic("index")
                                  /\ UNCHANGED <<x, y, lines>>
                      ELSE /\ shortcut_buffer' = <<>>
                           /\ NoPanic
                           /\ UNCHANGED <<x, y, lines>>
               [] OTHER ->
                    /\ shortcut_buffer' = buf
                    /\ NoPanic
                    /\ UNCHANGED <<x, y, lines>>
    /\ UNCHANGED <<mode, command, quit>>
    /\ Bounded

\* At column 0 of a later row an empty line is removed; a non-empty one is
\* left as it is (the arm holds only a comment).
BackspaceRemovesLine == x = 0 /\ y # 0 /\ HasLine(y) /\ Line(y) = <<>>

BackspaceInInsertMode ==
    /\ \E e \in Events : Reads(e, "BackspaceInInsertMode")
    /\ IF x = 0 /\ y # 0
         THEN /\ lines' = IF BackspaceRemovesLine THEN VecRemove(lines, y) ELSE lines
              /\ x' = x
              /\ NoPanic
         ELSE IF x > 0 /\ HasLine(y)
                THEN IF StrRemovePanic(Line(y), x - 1) = "none"
                       THEN /\ lines' = [lines EXCEPT ![y + 1] = StrRemove(@, x - 1)]
                            /\ x' = move_left(x)
                            /\ NoPanic
                       ELSE Panic(StrRemovePanic(Line(y), x - 1)) /\ UNCHANGED <<lines, x>>
                ELSE NoPanic /\ UNCHANGED <<lines, x>>
    /\ UNCHANGED <<mode, y, command, shortcut_buffer, quit>>

ClearShortuctBuffer ==
    /\ \E e \in Events : Reads(e, "ClearShortuctBuffer")
    /\ shortcut_buffer' = <<>>
    /\ NoPanic
    /\ UNCHANGED <<mode, x, y, lines, command, quit>>

RemoveCursorChar ==
    /\ \E e \in Events : Reads(e, "RemoveCursorChar")
    /\ IF HasLine(y) /\ Line(y) # <<>>
         THEN IF StrRemovePanic(Line(y), x) = "none"
                THEN /\ lines' = [lines EXCEPT ![y + 1] = StrRemove(@, x)]
                     /\ x' = IF x = StrLen(StrRemove(Line(y), x)) THEN move_left(x) ELSE x
                     /\ NoPanic
                ELSE Panic(StrRemovePanic(Line(y), x)) /\ UNCHANGED <<lines, x>>
         ELSE NoPanic /\ UNCHANGED <<lines, x>>
    /\ UNCHANGED <<mode, y, command, shortcut_buffer, quit>>

\* The default arm: Action::Unknown changes nothing.  (Action::Quit has an arm
\* too, but no translator returns it.)
Unknown ==
    /\ \E e \in Events : Reads(e, "Unknown")
    /\ NoPanic
    /\ UNCHANGED <<mode, x, y, lines, command, shortcut_buffer, quit>>

Next ==
    \/ EnterInsertMode
    \/ EnterInsertModeNext
    \/ EnterInsertModeInNewLine
    \/ EnterVisualMode
    \/ EnterCommandMode
    \/ MoveCursorLeft
    \/ MoveCursorRight
    \/ MoveCursorDown
    \/ MoveCursorUp
    \/ EnterCommandChar
    \/ ExecuteCommand
    \/ EnterChar
    \/ NewLine
    \/ AppendShortcutChar
    \/ BackspaceInInsertMode
    \/ ClearShortuctBuffer
    \/ RemoveCursorChar
    \/ Unknown

Spec == Init /\ [][Next]_vars

\* ---------------------------------------------------------------- claims
\* The loop is still processing events.
Running == ~quit /\ panic = "none"

\* C1: in every reachable state the cursor row is a valid index into the line
\* buffer, 0 <= y < number of lines.
C1_RowValid == 0 <= y /\ y < Len(lines)

\* C2: in every reachable state the line buffer holds at least one line.
C2_LinesNonEmpty == Len(lines) >= 1
\* "dd" has just fired on a buffer that now holds a single line.
C2_Witness ==
    /\ key = "d"
    /\ mode = "Visual"
    /\ shortcut_buffer = <<>>
    /\ Len(lines) = 1
    /\ panic = "none"

\* C3: every event is applied without failure: no action indexes a line or the
\* line vector out of range (or inside a character).
C3_NoIndexPanic == panic \notin {"index", "char_boundary", "overflow"}

\* C4: in Visual mode with an empty shortcut buffer, 'G' moves the cursor to
\* column 0 of the last line, leaves the lines unchanged and the shortcut buffer
\* empty.
C4_GMovesToEnd ==
    [][(Running /\ mode = "Visual" /\ shortcut_buffer = <<>> /\ key' = "G")
         => /\ panic' = "none"
            /\ x' = 0
            /\ y' = Len(lines) - 1
            /\ lines' = lines
            /\ shortcut_buffer' = <<>>]_vars

\* C5: after Enter in Command mode the editor is in Visual mode with an empty
\* command text, and quit stays false unless the command text was "q".
C5_CommitReturns ==
    [][(Running /\ mode = "Command" /\ key' = "Enter")
         => /\ mode' = "Visual"
            /\ command' = <<>>
            /\ (command # <<"q">> => quit' = FALSE)]_vars

\* C6: quit turns true exactly on Enter in Command mode with the command text
\* "q": that event always sets it, and no other step changes it.
C6_QuitOnlyByQ ==
    [][/\ (quit' # quit) =>
            (~quit /\ quit' /\ mode = "Command" /\ key' = "Enter" /\ command = <<"q">>)
       /\ (Running /\ mode = "Command" /\ key' = "Enter" /\ command = <<"q">>) => quit'
      ]_vars
\* The loop has ended by ":q" Enter.
C6_Witness == quit /\ key = "Enter" /\ mode = "Command" /\ command = <<"q">>

\* C7: in Insert mode at column 0 of a non-empty line of row r > 0, Backspace
\* joins the line onto the previous one.
C7_BackspaceJoins ==
    [][(Running /\ mode = "Insert" /\ x = 0 /\ y > 0 /\ HasLine(y)
          /\ Line(y) # <<>> /\ key' = "Backspace")
         => lines' = [VecRemove(lines, y) EXCEPT ![y] = Line(y - 1) \o Line(y)]]_vars

\* C8: in Insert mode on row r, Enter puts the new empty line at index r + 1,
\* keeps the other lines in order, and moves the cursor to row r + 1.
C8_EnterOpensBelow ==
    [][(Running /\ mode = "Insert" /\ HasLine(y) /\ key' = "Enter")
         => /\ lines' = VecInsert(lines, y + 1, <<>>)
            /\ y' = y + 1]_vars

\* C9: whenever the mode is not Visual the shortcut buffer is empty.
C9_ShortcutEmptyOutsideVisual == mode # "Visual" => shortcut_buffer = <<>>

\* C10: after Esc in Insert mode the mode is Visual, the lines are unchanged and
\* the column addresses an existing character of the current line (column 0 on
\* an empty line).
C10_EscOnCharacter ==
    [][(Running /\ mode = "Insert" /\ HasLine(y) /\ key' = "Esc")
         => /\ mode' = "Visual"
            /\ lines' = lines
            /\ IF Line(y) = <<>> THEN x' = 0 ELSE x' < StrLen(Line(y))]_vars

\* C11: in Visual mode, 'd' typed after a first 'd' (the buffer was empty before
\* it) removes exactly the line of the cursor row when there are several lines
\* and changes no line when there is one; the shortcut buffer is empty
\* afterwards and the mode is still Visual.
C11_DdRemovesRow ==
    [][(Running /\ mode = "Visual" /\ shortcut_buffer = <<"d">> /\ key' = "d")
         => /\ panic' = "none"
            /\ lines' = IF Len(lines) > 1 THEN VecRemove(lines, y) ELSE lines
            /\ shortcut_buffer' = <<>>
            /\ mode' = "Visual"]_vars

\* C12: in Insert mode, typing characters one at a time from column 0 of an
\* empty line builds the line in typing order with the column equal to the
\* number of characters typed: while the column is the number of characters
\* of the line, a typed character is appended, the column grows by one and the
\* other lines stay as they are.
C12_TypingAppends ==
    [][(Running /\ mode = "Insert" /\ HasLine(y) /\ x = Len(Line(y))
          /\ key' \in InsertChars)
         => /\ panic' = "none"
            /\ lines' = [lines EXCEPT ![y + 1] = Append(@, key')]
            /\ x' = x + 1]_vars

\* C13: in Visual mode, 'o' on row r inserts one empty line at index r + 1,
\* keeps the other lines in order, moves the cursor to row r + 1 and switches
\* to Insert mode.
C13_OpenLineBelow ==
    [][(Running /\ mode = "Visual" /\ key' = "o")
         => /\ panic' = "none"
            /\ lines' = VecInsert(lines, y + 1, <<>>)
            /\ y' = y + 1
            /\ lines'[y' + 1] = <<>>
            /\ mode' = "Insert"]_vars

\* C14: in Visual mode, 'g' typed after a first 'g' (the buffer was empty before
\* it) puts the cursor at column 0 of row 0 from any position, leaves the lines
\* unchanged and the shortcut buffer empty.
C14_GgMovesToOrigin ==
    [][(Running /\ mode = "Visual" /\ shortcut_buffer = <<"g">> /\ key' = "g")
         => /\ panic' = "none"
            /\ x' = 0
            /\ y' = 0
            /\ lines' = lines
            /\ shortcut_buffer' = <<>>
            /\ mode' = "Visual"]_vars
\* "gg" has just fired in a buffer of several lines, the last of them with text.
C14_Witness ==
    /\ key = "g"
    /\ mode = "Visual"
    /\ shortcut_buffer = <<>>
    /\ panic = "none"
    /\ x = 0
    /\ y = 0
    /\ Len(lines) > 1
    /\ lines[Len(lines)] # <<>>

Max(a, b) == IF a > b THEN a ELSE b

\* C15: movement in Visual mode is clamped and never fails: 'h' at column 0
\* and 'k' at row 0 leave the coordinate 0, 'j' never yields a row greater than
\* line count - 1, 'l' never yields a column greater than
\* max(0, characters of the current line - 1); move_right(b) and move_down(b)
\* never exceed b.
C15_MovementClamped ==
    /\ [](\A b \in 0..MaxBytes : move_right(x, b) <= b /\ move_down(y, b) <= b)
    /\ [][(Running /\ mode = "Visual" /\ key' \in {"h", "j", "k", "l"})
            => /\ panic' = "none"
               /\ (key' = "h" /\ x = 0) => x' = 0
               /\ (key' = "k" /\ y = 0) => y' = 0
               /\ key' = "j" => y' <= Len(lines) - 1
               /\ (key' = "l" /\ HasLine(y)) => x' <= Max(0, Len(Line(y)) - 1)]_vars

\* The events without an arm in the translator of mode m: every non-key event
\* and every other key, Enter and Backspace in Visual mode, Backspace in
\* Command mode.
Unmapped(m) ==
    {"Tab", "Resize"}
      \cup (IF m = "Visual" THEN {"Enter", "Backspace"} ELSE {})
      \cup (IF m = "Command" THEN {"Backspace"} ELSE {})

\* C16: in every mode an event without a mapping translates to the no-op
\* action, and processing it leaves mode, cursor, lines, command text, shortcut
\* buffer and quit unchanged.
C16_UnmappedIsNoOp ==
    /\ [](\A e \in Unmapped(mode) : Translate(e) = [type |-> "Unknown"])
    /\ [][(Running /\ key' \in Unmapped(mode))
            => /\ panic' = "none"
               /\ UNCHANGED <<mode, x, y, lines, command, shortcut_buffer, quit>>]_vars
\* Backspace has just been processed in Command mode with a command text typed.
C16_Witness ==
    /\ key = "Backspace"
    /\ mode = "Command"
    /\ command # <<>>
    /\ panic = "none"

\* C17: the command text is empty whenever the mode is not Command, and right
\* after ':' in Visual mode the mode is Command with an empty command text.
C17_CommandEmptyOutsideCommand ==
    /\ [](mode # "Command" => command = <<>>)
    /\ [][(Running /\ mode = "Visual" /\ key' = ":")
            => (mode' = "Command" /\ command' = <<>>)]_vars
\* Command mode has just been entered by ':' with text in the buffer.
C17_Witness ==
    /\ key = ":"
    /\ mode = "Command"
    /\ command = <<>>
    /\ TotalBytes(lines) > 0
    /\ panic = "none"

\* C18: after every processed event in Visual mode the shortcut buffer is empty
\* or a proper prefix of a trigger ("g" or "d"): a character that cannot extend
\* it to such a prefix does not stay in the buffer.
C18_ShortcutBufferIsPrefix ==
    (mode = "Visual" /\ panic = "none")
        => shortcut_buffer \in {<<>>, <<"g">>, <<"d">>}

\* C19: from every state in which quit is false, Esc, ':', 'q', Enter are each
\* applied without a panic and end with quit = TRUE: Esc leads to Visual mode
\* with an empty command text, ':' from there to Command mode with an empty
\* command text, 'q' makes the command text "q", Enter on "q" sets quit; and
\* the loop takes no step once quit is set.
C19_QuitReachable ==
    [][/\ ~quit
       /\ (Running /\ key' = "Esc")
            => (panic' = "none" /\ ~quit' /\ mode' = "Visual" /\ command' = <<>>)
       /\ (Running /\ mode = "Visual" /\ command = <<>> /\ key' = ":")
            => (panic' = "none" /\ ~quit' /\ mode' = "Command" /\ command' = <<>>)
       /\ (Running /\ mode = "Command" /\ command = <<>> /\ key' = "q")
            => (panic' = "none" /\ ~quit' /\ mode' = "Command" /\ command' = <<"q">>)
       /\ (Running /\ mode = "Command" /\ command = <<"q">> /\ key' = "Enter")
            => (panic' = "none" /\ quit')
      ]_vars
\* The loop has ended by ":q" Enter with text in the lines and the cursor on a
\* later row.
C19_Witness ==
    /\ quit
    /\ panic = "none"
    /\ key = "Enter"
    /\ command = <<"q">>
    /\ TotalBytes(lines) > 0
    /\ y > 0

\* C20: the cursor column counts characters, not bytes: a typed wide character
\* advances the column by one, no later insertion, Backspace or 'x' fails by
\* addressing the inside of a character, and Esc in Insert mode steps back
\* from the end of the line, the end being the number of characters.
C20_ColumnCountsCharacters ==
    [][/\ (Running /\ mode = "Insert" /\ HasLine(y) /\ key' = WideChar
             /\ panic' = "none")
            => x' = x + 1
       /\ (Running /\ key' \in InsertChars \cup {"Backspace", "x"})
            => panic' # "char_boundary"
       /\ (Running /\ mode = "Insert" /\ HasLine(y) /\ x = Len(Line(y))
             /\ key' = "Esc")
            => x' = SatDec(x)
      ]_vars

====
